---------------------------- MODULE Spec2Model ----------------------------
(***************************************************************************)
(* A model of bevy_lunex_ui's 2D systems (code/system.rs):                 *)
(*   tree_pull_window, tree_compute, element_update, element_update_impl   *)
(* and of the schedule LunexUiPlugin2DGeneric::build registers for them.   *)
(*                                                                         *)
(* f32 values are modelled as exact rationals <<n, d>> (d > 0, reduced):   *)
(* rounding is not modelled, and the value sets keep every divisor         *)
(* non-zero, so that no infinity or NaN arises.                            *)
(***************************************************************************)
EXTENDS Integers, Sequences, FiniteSets, TLC

VARIABLES
    pc,           \* position of the frame in the chained schedule
    trees,        \* tree entity -> its components (UiTree, Size, Transform, Window)
    treeChanged,  \* tree entity -> Changed<UiTree<T>> or Changed<Transform> is set
    elems,        \* element entity -> Widget, Element, Transform, Visibility
    elemChanged,  \* element entity -> Changed<Widget> or Changed<Element> is set
    buffer,       \* element_update's Local<Vec<Entity>>
    todo,         \* tree entities the running loop of element_update has not visited
    commands,     \* entities with a queued despawn command
    log,          \* history of the running frame (observation only)
    call,         \* one direct invocation of element_update_impl (SpecImpl)
    used          \* frames run and environment steps taken so far

vars == <<pc, trees, treeChanged, elems, elemChanged, buffer, todo, commands, log,
          call, used>>

-----------------------------------------------------------------------------
(* f32 arithmetic as exact rationals *)

Abs(i) == IF i < 0 THEN -i ELSE i

RECURSIVE GCD(_, _)
GCD(a, b) == IF b = 0 THEN a ELSE GCD(b, a % b)

\* n/d reduced, with a positive denominator (d # 0)
Rat(n, d) ==
    LET g == GCD(Abs(n), Abs(d))
        s == IF d < 0 THEN -1 ELSE 1
    IN  <<(s * n) \div g, (s * d) \div g>>

R(i) == <<i, 1>>
RMul(a, b) == Rat(a[1] * b[1], a[2] * b[2])
RDiv(a, b) == Rat(a[1] * b[2], a[2] * b[1])
RAdd(a, b) == Rat(a[1] * b[2] + b[1] * a[2], a[2] * b[2])
RNeg(a) == <<-a[1], a[2]>>
RLeq(a, b) == a[1] * b[2] <= b[1] * a[2]
\* f32::min
RMin(a, b) == IF RLeq(a, b) THEN a ELSE b

-----------------------------------------------------------------------------
(* Data: Option<f32>, Modifier, Position, UiTree nodes, Widget, Element *)

None == [some |-> FALSE, v |-> 0]
Some(w) == [some |-> TRUE, v |-> w]

\* Modifier::Add(v) | Modifier::Set(v)
Add(v) == [kind |-> "Add", v |-> v]
Set(v) == [kind |-> "Set", v |-> v]

\* per-level render depth step of bevy_lunex_core
LEVEL_RENDER_DEPTH_DIFFERENCE == 10

\* The node paths of a tree: "a" at the first level and its child "a/b".
Paths == {"a", "a/b"}
\* A path no tree holds a node for.
Dangling == "x"
WidgetPaths == Paths \cup {Dangling}

\* The nodes on the way from the root to p, p included.
PathTo(p) == IF p = "a/b" THEN {"a", "a/b"} ELSE {p}

\* widget.fetch(&tree): Ok(branch) iff every segment of the path names a node.
FetchOk(widget, tree) ==
    /\ widget.path \in Paths
    /\ \A q \in PathTo(widget.path) : tree.nodes[q].present

\* the branch widget.fetch returns, when FetchOk
Fetch(widget, tree) == tree.nodes[widget.path]

\* branch.is_visible(): the node and every ancestor are visible
is_visible(widget, tree) == \A q \in PathTo(widget.path) : tree.nodes[q].visible

\* Position::get_pos: the relative point (percent) inside the rectangle
get_pos(pos, relative) ==
    [x |-> RAdd(pos.x, RDiv(RMul(pos.width, R(relative[1])), R(100))),
     y |-> RAdd(pos.y, RDiv(RMul(pos.height, R(relative[2])), R(100)))]

\* InvertY::invert_y
invert_y(vec) == [x |-> vec.x, y |-> RNeg(vec.y)]

-----------------------------------------------------------------------------
(* element_update_impl *)

\* lines 121-124: translation.z from the container's render depth
\* Mutation: Set adds the level depth as Add does
RenderDepthSetWithLevel(branch, element, tree_translation) ==
    branch.render_depth.v + branch.depth * LEVEL_RENDER_DEPTH_DIFFERENCE
        + element.depth + tree_translation.z

\* Mutation: Add leaves the level depth out
RenderDepthAddWithoutLevel(branch, element, tree_translation) ==
    branch.render_depth.v + element.depth + tree_translation.z

RenderDepth(branch, element, tree_translation) ==
    IF branch.render_depth.kind = "Add"
    THEN branch.render_depth.v + branch.depth * LEVEL_RENDER_DEPTH_DIFFERENCE
             + element.depth + tree_translation.z
    ELSE branch.render_depth.v + element.depth + tree_translation.z

\* Mutation: a collapsed width is taken as one pixel
ScaleXClamped(pos, element, w) ==
    RDiv(RMul(RMul(RDiv(IF pos.width[1] = 0 THEN R(1) ELSE pos.width,
                        R(element.boundary.x)), RDiv(R(w), R(100))),
              R(element.scale)), R(100))

\* lines 135, 139: (pos.width/element.boundary.x)*(w/100.0) * element.scale/100.0
ScaleX(pos, element, w) ==
    RDiv(RMul(RMul(RDiv(pos.width, R(element.boundary.x)), RDiv(R(w), R(100))),
              R(element.scale)), R(100))

\* lines 136, 148: (pos.height/element.boundary.y)*(h/100.0) * element.scale/100.0
ScaleY(pos, element, h) ==
    RDiv(RMul(RMul(RDiv(pos.height, R(element.boundary.y)), RDiv(R(h), R(100))),
              R(element.scale)), R(100))

\* Mutation: the larger of the two ratios
ScaleFitLarger(pos, element) ==
    LET a == RDiv(pos.width, R(element.boundary.x))
        b == RDiv(pos.height, R(element.boundary.y))
    IN  RDiv(RMul(IF RLeq(a, b) THEN b ELSE a, R(element.scale)), R(100))

\* line 153: f32::min(pos.width/boundary.x, pos.height/boundary.y) * element.scale/100.0
ScaleFit(pos, element) ==
    RDiv(RMul(RMin(RDiv(pos.width, R(element.boundary.x)),
                   RDiv(pos.height, R(element.boundary.y))),
              R(element.scale)), R(100))

\* Mutation: width-only mode scales y by the height ratio
ElementScaleWidthOnlyPerAxis(pos, element) ==
    IF element.width.some
    THEN [x |-> ScaleX(pos, element, element.width.v),
          y |-> ScaleY(pos, element,
                       IF element.height.some THEN element.height.v
                       ELSE element.width.v)]
    ELSE IF element.height.some
         THEN [x |-> ScaleY(pos, element, element.height.v),
               y |-> ScaleY(pos, element, element.height.v)]
         ELSE [x |-> ScaleFit(pos, element), y |-> ScaleFit(pos, element)]

\* lines 131-159: the (x, y) scale selected by (element.width, element.height)
ElementScale(pos, element) ==
    IF element.width.some
    THEN IF element.height.some
         THEN [x |-> ScaleX(pos, element, element.width.v),
               y |-> ScaleY(pos, element, element.height.v)]
         ELSE [x |-> ScaleX(pos, element, element.width.v),
               y |-> ScaleX(pos, element, element.width.v)]
    ELSE IF element.height.some
         THEN [x |-> ScaleY(pos, element, element.height.v),
               y |-> ScaleY(pos, element, element.height.v)]
         ELSE [x |-> ScaleFit(pos, element), y |-> ScaleFit(pos, element)]

\* Mutation: a hidden node resets the translation
HiddenMovesToOrigin(branch, visible, element, tree_translation, transform) ==
    IF ~visible
    THEN [despawn |-> FALSE, visibility |-> "Hidden",
          transform |-> [transform EXCEPT !.translation =
                             [x |-> R(0), y |-> R(0), z |-> 0]]]
    ELSE LET vec == invert_y(get_pos(branch.pos, element.relative))
             sc == ElementScale(branch.pos, element)
         IN  [despawn |-> FALSE, visibility |-> "Inherited",
              transform |-> [transform EXCEPT
                  !.translation = [x |-> vec.x, y |-> vec.y,
                                   z |-> RenderDepth(branch, element, tree_translation)],
                  !.scale = [x |-> sc.x, y |-> sc.y, z |-> @.z]]]

\* What the visible arm writes (used by the mutations below).
VisibleWrite(branch, element, tree_translation, transform) ==
    LET vec == invert_y(get_pos(branch.pos, element.relative))
        sc == ElementScale(branch.pos, element)
    IN  [transform EXCEPT
            !.translation = [x |-> vec.x, y |-> vec.y,
                             z |-> RenderDepth(branch, element, tree_translation)],
            !.scale = [x |-> sc.x, y |-> sc.y, z |-> @.z]]

\* Mutation: the depth is added to the z already there
ReconcileAccumulating(branch, visible, element, tree_translation, transform) ==
    IF ~visible
    THEN [despawn |-> FALSE, visibility |-> "Hidden", transform |-> transform]
    ELSE [despawn |-> FALSE, visibility |-> "Inherited",
          transform |-> [VisibleWrite(branch, element, tree_translation, transform)
                            EXCEPT !.translation.z = @ + transform.translation.z]]

\* Mutation: scale.z is reset along with the x and y scale
ReconcileWritesScaleZ(branch, visible, element, tree_translation, transform) ==
    IF ~visible
    THEN [despawn |-> FALSE, visibility |-> "Hidden", transform |-> transform]
    ELSE [despawn |-> FALSE, visibility |-> "Inherited",
          transform |-> [VisibleWrite(branch, element, tree_translation, transform)
                            EXCEPT !.scale.z = 0]]

\* Mutation: the y of the position is written without the inversion
ReconcileNoFlip(branch, visible, element, tree_translation, transform) ==
    IF ~visible
    THEN [despawn |-> FALSE, visibility |-> "Hidden", transform |-> transform]
    ELSE [despawn |-> FALSE, visibility |-> "Inherited",
          transform |-> [VisibleWrite(branch, element, tree_translation, transform)
                            EXCEPT !.translation.y = RNeg(@)]]

\* lines 115-160: the Ok(branch) arm
Reconcile(branch, visible, element, tree_translation, transform) ==
    IF ~visible
    THEN [despawn |-> FALSE, visibility |-> "Hidden", transform |-> transform]
    ELSE LET pos == branch.pos
             vec == invert_y(get_pos(pos, element.relative))
             sc == ElementScale(pos, element)
         IN  [despawn |-> FALSE, visibility |-> "Inherited",
              transform |-> [transform EXCEPT
                  !.translation = [x |-> vec.x, y |-> vec.y,
                                   z |-> RenderDepth(branch, element, tree_translation)],
                  !.scale = [x |-> sc.x, y |-> sc.y, z |-> @.z]]]

\* lines 100-163: what one call leaves in transform and visibility, and whether
\* it queues commands.entity(entity).despawn()
element_update_impl(tree, tree_translation, widget, element, transform, visibility) ==
    IF ~FetchOk(widget, tree)
    THEN [despawn |-> TRUE, visibility |-> visibility, transform |-> transform]
    ELSE Reconcile(Fetch(widget, tree), is_visible(widget, tree), element,
                   tree_translation, transform)

-----------------------------------------------------------------------------
(* The world: tree entities and element entities *)

\* The entities of the world: tree entities of one kind T, element entities.
Trees == {1, 2}
Elements == {1, 2}

\* Window resolutions the environment may set.
WindowSizes == {[width |-> 200, height |-> 100], [width |-> 400, height |-> 100]}
\* Element.relative values the environment may set.
Relatives == {<<0, 0>>, <<50, 50>>}

\* The layout rule of a node: its rectangle in percent of the parent's.
Rule(p) == IF p = "a" THEN [x |-> 0, y |-> 0, w |-> 100, h |-> 100]
           ELSE [x |-> 25, y |-> 25, w |-> 50, h |-> 50]

ZeroPos == [x |-> R(0), y |-> R(0), width |-> R(0), height |-> R(0)]

\* Transform::default() and Visibility::default()
DefaultTransform ==
    [translation |-> [x |-> R(0), y |-> R(0), z |-> 0],
     scale |-> [x |-> R(1), y |-> R(1), z |-> 1],
     rotation |-> 0]

\* A rectangle placed by a percent rule inside its parent rectangle.
Place(parent, rule) ==
    [x |-> RAdd(parent.x, RDiv(RMul(parent.width, R(rule.x)), R(100))),
     y |-> RAdd(parent.y, RDiv(RMul(parent.height, R(rule.y)), R(100))),
     width |-> RDiv(RMul(parent.width, R(rule.w)), R(100)),
     height |-> RDiv(RMul(parent.height, R(rule.h)), R(100))]

\* UiTree::compute(point, width, height): every node's rectangle from the root
\* rectangle, parent before child.
compute(tree, point, width, height) ==
    LET root == [x |-> point.x, y |-> point.y, width |-> R(width), height |-> R(height)]
        a == Place(root, Rule("a"))
        b == Place(a, Rule("a/b"))
    IN  [tree EXCEPT !.nodes["a"].pos = a, !.nodes["a/b"].pos = b]

\* A freshly built node: present, visible, not yet computed.
NewNode(p) ==
    [present |-> TRUE, visible |-> TRUE,
     depth |-> IF p = "a" THEN 1 ELSE 2,
     render_depth |-> Add(0), pos |-> ZeroPos]

\* Tree entities come in two archetypes: with Window and Size components
\* ("window"), and with neither ("bare": UiTree and Transform only).
NewTree(kind, z) ==
    [kind |-> kind,
     window |-> [width |-> 200, height |-> 100],
     size |-> [width |-> 0, height |-> 0],
     translation |-> [x |-> R(0), y |-> R(0), z |-> z],
     tree |-> [nodes |-> [p \in Paths |-> NewNode(p)]]]

NewElement(path) ==
    [alive |-> TRUE,
     widget |-> [path |-> path],
     element |-> [relative |-> <<0, 0>>, width |-> None, height |-> None,
                  boundary |-> [x |-> 100, y |-> 200], scale |-> 100, depth |-> 0],
     transform |-> DefaultTransform,
     visibility |-> "Inherited"]

\* The trees the application spawns, by archetype; "none": not spawned.
Worlds == {<<"window", "none">>, <<"bare", "none">>, <<"window", "window">>,
           <<"window", "bare">>}

EmptyLog ==
    [resized |-> {}, treeEdited |-> {}, elemEdited |-> {},
     ran |-> <<>>, start |-> [e \in Elements |-> NewElement("a")],
     pulled |-> {}, computed |-> {}, against |-> {}, wrote |-> {}, failed |-> {},
     lateWrite |-> {}, despawned |-> {},
     zBefore |-> [t \in Trees |-> 0], computedWith |-> {}, skipped |-> {}, passB |-> {},
     recon |-> [e \in Elements |-> 0],
     outcomes |-> [e \in Elements |-> {}]]

NoCall == [n |-> 0]

-----------------------------------------------------------------------------
(* The schedule: LunexUiPlugin2DGeneric::build *)

\* Mutation: the chain with its last two systems swapped
ChainReconcileFirst == <<"tree_pull_window", "element_update", "tree_compute">>

\* (tree_pull_window::<T>, tree_compute::<T>, element_update::<T>).chain()
Chain == <<"tree_pull_window", "tree_compute", "element_update">>

\* the system that runs after system s in the frame; "apply" once all have run
After(s) ==
    LET i == CHOOSE k \in 1..Len(Chain) : Chain[k] = s
    IN  IF i = Len(Chain) THEN "apply" ELSE Chain[i + 1]

-----------------------------------------------------------------------------
(* The environment, between two frames: other systems and the window *)

\* How long a run is followed: frames run, and environment steps in all.
MaxFrames == 2
MaxEdits == 2

Idle == pc = "idle"

Edit ==
    /\ used.edits < MaxEdits
    /\ used' = [used EXCEPT !.edits = @ + 1]

\* the window of a tree entity is resized
WindowResized(t, ws) ==
    /\ Idle
    /\ Edit
    /\ trees[t].kind = "window"
    /\ trees[t].window # ws
    /\ trees' = [trees EXCEPT ![t].window = ws]
    /\ log' = [log EXCEPT !.resized = @ \cup {t}]
    /\ UNCHANGED <<pc, treeChanged, elems, elemChanged, buffer, todo, commands, call>>

\* a node and its descendants are removed from a tree
RemoveNode(t, p) ==
    /\ Idle
    /\ Edit
    /\ trees[t].kind # "none"
    /\ trees[t].tree.nodes[p].present
    /\ trees' = [trees EXCEPT ![t].tree.nodes =
                    [q \in Paths |-> IF p \in PathTo(q)
                                     THEN [@[q] EXCEPT !.present = FALSE]
                                     ELSE @[q]]]
    /\ treeChanged' = [treeChanged EXCEPT ![t] = TRUE]
    /\ log' = [log EXCEPT !.treeEdited = @ \cup {t}]
    /\ UNCHANGED <<pc, elems, elemChanged, buffer, todo, commands, call>>

\* a node's own visibility flag is switched
SetVisibility(t, p, v) ==
    /\ Idle
    /\ Edit
    /\ trees[t].kind # "none"
    /\ trees[t].tree.nodes[p].present
    /\ trees[t].tree.nodes[p].visible # v
    /\ trees' = [trees EXCEPT ![t].tree.nodes[p].visible = v]
    /\ treeChanged' = [treeChanged EXCEPT ![t] = TRUE]
    /\ log' = [log EXCEPT !.treeEdited = @ \cup {t}]
    /\ UNCHANGED <<pc, elems, elemChanged, buffer, todo, commands, call>>

\* an element's Widget is pointed at another path
EditWidget(e, path) ==
    /\ Idle
    /\ Edit
    /\ elems[e].alive
    /\ elems[e].widget.path # path
    /\ elems' = [elems EXCEPT ![e].widget.path = path]
    /\ elemChanged' = [elemChanged EXCEPT ![e] = TRUE]
    /\ log' = [log EXCEPT !.elemEdited = @ \cup {e}]
    /\ UNCHANGED <<pc, trees, treeChanged, buffer, todo, commands, call>>

\* an element's Element data is rewritten
EditElement(e, rel) ==
    /\ Idle
    /\ Edit
    /\ elems[e].alive
    /\ elems' = [elems EXCEPT ![e].element.relative = rel]
    /\ elemChanged' = [elemChanged EXCEPT ![e] = TRUE]
    /\ log' = [log EXCEPT !.elemEdited = @ \cup {e}]
    /\ UNCHANGED <<pc, trees, treeChanged, buffer, todo, commands, call>>

-----------------------------------------------------------------------------
(* The frame *)

StartFrame ==
    /\ Idle
    /\ used.frames < MaxFrames
    /\ used' = [used EXCEPT !.frames = @ + 1]
    /\ pc' = Chain[1]
    /\ log' = [log EXCEPT !.start = elems]
    /\ UNCHANGED <<trees, treeChanged, elems, elemChanged, buffer, todo, commands, call>>

\* Mutation: the translation is derived from the Size of the frame before
tree_pull_window_stale_size ==
    /\ pc = "tree_pull_window"
    /\ trees' = [t \in Trees |->
                   IF trees[t].kind = "window"
                   THEN [trees[t] EXCEPT
                            !.size = [width |-> trees[t].window.width,
                                      height |-> trees[t].window.height],
                            !.translation.x = Rat(-trees[t].size.width, 2),
                            !.translation.y = Rat(-trees[t].size.height, 2)]
                   ELSE trees[t]]
    /\ treeChanged' = [t \in Trees |-> treeChanged[t] \/ trees[t].kind = "window"]
    /\ log' = [log EXCEPT !.pulled = {t \in Trees : trees[t].kind = "window"},
                           !.zBefore = [t \in Trees |-> trees[t].translation.z],
                           !.ran = Append(@, "tree_pull_window")]
    /\ pc' = After("tree_pull_window")
    /\ UNCHANGED <<elems, elemChanged, buffer, todo, commands, call, used>>

\* lines 15-22; the writes through &mut Transform flag Changed<Transform>
tree_pull_window ==
    /\ pc = "tree_pull_window"
    /\ trees' = [t \in Trees |->
                   IF trees[t].kind = "window"
                   THEN [trees[t] EXCEPT
                            !.size = [width |-> trees[t].window.width,
                                      height |-> trees[t].window.height],
                            !.translation.x = Rat(-trees[t].window.width, 2),
                            !.translation.y = Rat(-trees[t].window.height, 2)]
                   ELSE trees[t]]
    /\ treeChanged' = [t \in Trees |-> treeChanged[t] \/ trees[t].kind = "window"]
    /\ log' = [log EXCEPT !.pulled = {t \in Trees : trees[t].kind = "window"},
                           !.zBefore = [t \in Trees |-> trees[t].translation.z],
                           !.ran = Append(@, "tree_pull_window")]
    /\ pc' = After("tree_pull_window")
    /\ UNCHANGED <<elems, elemChanged, buffer, todo, commands, call, used>>

\* lines 30-34; compute takes &mut UiTree<T>, which flags Changed<UiTree<T>>
tree_compute ==
    /\ pc = "tree_compute"
    /\ trees' = [t \in Trees |->
                   IF trees[t].kind = "window"
                   THEN [trees[t] EXCEPT !.tree =
                            compute(@, trees[t].translation,
                                    trees[t].size.width, trees[t].size.height)]
                   ELSE trees[t]]
    /\ treeChanged' = [t \in Trees |-> treeChanged[t] \/ trees[t].kind = "window"]
    /\ log' = [log EXCEPT !.computed = {t \in Trees : trees[t].kind = "window"},
                           !.computedWith =
                               {[tree |-> t,
                                 point |-> [x |-> trees[t].translation.x,
                                            y |-> trees[t].translation.y],
                                 width |-> trees[t].size.width,
                                 height |-> trees[t].size.height] :
                                    t \in {u \in Trees : trees[u].kind = "window"}},
                           !.ran = Append(@, "tree_compute")]
    /\ pc' = After("tree_compute")
    /\ UNCHANGED <<elems, elemChanged, buffer, todo, commands, call, used>>

\* Mutation: the first loop sees only the changed elements
elements_if_changed == {e \in Elements : elems[e].alive /\ elemChanged[e]}

\* the `elements` query (line 51) and the `changed_elements` query (lines 52-55)
elements == {e \in Elements : elems[e].alive}
changed_elements == {e \in Elements : elems[e].alive /\ elemChanged[e]}
\* the `trees` query (line 49) and the `changed_trees` query (line 50)
all_trees == {t \in Trees : trees[t].kind # "none"}
changed_trees == {t \in Trees : trees[t].kind # "none" /\ treeChanged[t]}

\* element_update_impl on every entity of the set S against tree t
Call(t, e) ==
    element_update_impl(trees[t].tree, trees[t].translation, elems[e].widget,
                        elems[e].element, elems[e].transform, elems[e].visibility)

UpdateAll(t, S, pass) ==
    /\ elems' = [e \in Elements |->
                   IF e \in S
                   THEN [elems[e] EXCEPT !.transform = Call(t, e).transform,
                                         !.visibility = Call(t, e).visibility]
                   ELSE elems[e]]
    /\ commands' = commands \cup {e \in S : Call(t, e).despawn}
    /\ log' = [log EXCEPT
          !.against = @ \cup {<<e, t>> : e \in S},
          !.passB = IF pass = "b" THEN @ \cup {t} ELSE @,
          !.recon = [e \in Elements |-> IF e \in S THEN @[e] + 1 ELSE @[e]],
          !.wrote = @ \cup {e \in S : ~Call(t, e).despawn},
          !.failed = @ \cup {e \in S : Call(t, e).despawn},
          !.lateWrite = @ \cup {e \in S : e \in commands /\ ~Call(t, e).despawn},
          !.outcomes = [e \in Elements |->
              IF e \notin S THEN @[e]
              ELSE @[e] \cup {IF Call(t, e).despawn THEN "Removed"
                              ELSE Call(t, e).visibility}]]

\* Mutation: the buffer is not cleared
element_update_keeping_buffer ==
    /\ pc = "element_update"
    /\ buffer' = buffer
    /\ todo' = changed_trees
    /\ pc' = "changed_trees"
    /\ log' = [log EXCEPT !.ran = Append(@, "element_update")]
    /\ UNCHANGED <<trees, treeChanged, elems, elemChanged, commands, call, used>>

\* line 57, and the set the first loop (line 60) iterates
element_update ==
    /\ pc = "element_update"
    /\ buffer' = <<>>
    /\ todo' = changed_trees
    /\ pc' = "changed_trees"
    /\ log' = [log EXCEPT !.ran = Append(@, "element_update")]
    /\ UNCHANGED <<trees, treeChanged, elems, elemChanged, commands, call, used>>

\* lines 60-75: one iteration of the loop over changed_trees
element_update_changed_tree(t) ==
    /\ pc = "changed_trees"
    /\ t \in todo
    /\ buffer' = Append(buffer, t)
    /\ UpdateAll(t, elements, "a")
    /\ todo' = todo \ {t}
    /\ UNCHANGED <<pc, trees, treeChanged, elemChanged, call, used>>

\* the first loop is over; the second (line 78) iterates `trees`
element_update_next_loop ==
    /\ pc = "changed_trees"
    /\ todo = {}
    /\ todo' = all_trees
    /\ pc' = "trees"
    /\ UNCHANGED <<trees, treeChanged, elems, elemChanged, buffer, commands, log, call, used>>

\* lines 79-83: the tree is one of the buffer
InBuffer(t) == \E i \in 1..Len(buffer) : buffer[i] = t

\* Mutation: the test of the buffer is inverted
element_update_tree_inverted(t) ==
    /\ pc = "trees"
    /\ t \in todo
    /\ todo' = todo \ {t}
    /\ \/ /\ ~InBuffer(t)
          /\ log' = [log EXCEPT !.skipped = @ \cup {t}]
          /\ UNCHANGED <<elems, commands>>
       \/ /\ InBuffer(t)
          /\ UpdateAll(t, changed_elements, "b")
    /\ UNCHANGED <<pc, trees, treeChanged, elemChanged, buffer, call, used>>

\* lines 78-97: one iteration of the loop over trees
element_update_tree(t) ==
    /\ pc = "trees"
    /\ t \in todo
    /\ todo' = todo \ {t}
    /\ \/ /\ InBuffer(t)
          /\ log' = [log EXCEPT !.skipped = @ \cup {t}]
          /\ UNCHANGED <<elems, commands>>
       \/ /\ ~InBuffer(t)
          /\ UpdateAll(t, changed_elements, "b")
    /\ UNCHANGED <<pc, trees, treeChanged, elemChanged, buffer, call, used>>

element_update_return ==
    /\ pc = "trees"
    /\ todo = {}
    /\ pc' = After("element_update")
    /\ UNCHANGED <<trees, treeChanged, elems, elemChanged, buffer, todo, commands, log, call, used>>

\* the queued commands are applied: line 112's despawn takes effect
apply_commands ==
    /\ pc = "apply"
    /\ elems' = [e \in Elements |->
                   IF e \in commands THEN [elems[e] EXCEPT !.alive = FALSE] ELSE elems[e]]
    /\ commands' = {}
    /\ log' = [log EXCEPT !.despawned = commands]
    /\ pc' = "end"
    /\ UNCHANGED <<trees, treeChanged, elemChanged, buffer, todo, call, used>>

\* the frame is over: what element_update has seen is no longer Changed
EndFrame ==
    /\ pc = "end"
    /\ treeChanged' = [t \in Trees |-> FALSE]
    /\ elemChanged' = [e \in Elements |-> FALSE]
    /\ log' = EmptyLog
    /\ pc' = "idle"
    /\ UNCHANGED <<trees, elems, buffer, todo, commands, call, used>>

-----------------------------------------------------------------------------
(* The specification of the running application *)

\* Everything has just been spawned: every component counts as changed.
Init ==
    /\ pc = "idle"
    /\ \E k \in Worlds : trees = [t \in Trees |-> NewTree(k[t], 5)]
    /\ treeChanged = [t \in Trees |-> trees[t].kind # "none"]
    /\ elems = [e \in Elements |-> NewElement(IF e = 1 THEN "a" ELSE "a/b")]
    /\ elemChanged = [e \in Elements |-> TRUE]
    /\ buffer = <<>>
    /\ todo = {}
    /\ commands = {}
    /\ log = [EmptyLog EXCEPT !.treeEdited = {t \in Trees : trees[t].kind # "none"},
                            !.elemEdited = Elements]
    /\ call = NoCall
    /\ used = [frames |-> 0, edits |-> 0]

Environment ==
    \/ \E t \in Trees, ws \in WindowSizes : WindowResized(t, ws)
    \/ \E t \in Trees, p \in Paths : RemoveNode(t, p)
    \/ \E t \in Trees, p \in Paths, v \in BOOLEAN : SetVisibility(t, p, v)
    \/ \E e \in Elements, path \in Paths : EditWidget(e, path)
    \/ \E e \in Elements, rel \in Relatives : EditElement(e, rel)

Frame ==
    \/ StartFrame
    \/ tree_pull_window
    \/ tree_compute
    \/ element_update
    \/ \E t \in Trees : element_update_changed_tree(t)
    \/ element_update_next_loop
    \/ \E t \in Trees : element_update_tree(t)
    \/ element_update_return
    \/ apply_commands
    \/ EndFrame

Next == Environment \/ Frame

Spec == Init /\ [][Next]_vars

-----------------------------------------------------------------------------
(* element_update_impl on its own: one entity, called with drawn arguments *)

\* calls made in succession on the same entity
MaxCalls == 2

RectDims == {0, 50, 200}
Depths == {1, 3}
RenderDepths == {Add(3), Set(3)}
ElementWidths == {None, Some(50)}
ElementHeights == {None, Some(80)}
Boundaries == {[x |-> 100, y |-> 200], [x |-> 50, y |-> 50]}
ElementScales == {100, 50}
ElementDepths == {0, 2}
TreeZs == {0, 5}

\* a transform some other system has left on the entity
MovedTransform ==
    [translation |-> [x |-> R(7), y |-> R(8), z |-> 9],
     scale |-> [x |-> R(3), y |-> R(4), z |-> 2],
     rotation |-> 1]

Befores == {[transform |-> DefaultTransform, visibility |-> "Inherited"],
            [transform |-> MovedTransform, visibility |-> "Visible"]}

\* the tree "a" -> "a/b" with the drawn node at "a/b"
CallTree(present, visible, parent_visible, depth, rd, w, h) ==
    [nodes |-> [p \in Paths |->
        IF p = "a"
        THEN [NewNode(p) EXCEPT !.visible = parent_visible]
        ELSE [present |-> present, visible |-> visible, depth |-> depth,
              render_depth |-> rd,
              pos |-> [x |-> R(10), y |-> R(20), width |-> R(w), height |-> R(h)]]]]

InitImpl ==
    /\ pc = "impl"
    /\ trees = [t \in Trees |-> NewTree("none", 0)]
    /\ treeChanged = [t \in Trees |-> FALSE]
    /\ elems = [e \in Elements |-> NewElement("a")]
    /\ elemChanged = [e \in Elements |-> FALSE]
    /\ buffer = <<>>
    /\ todo = {}
    /\ commands = {}
    /\ log = EmptyLog
    /\ used = [frames |-> 0, edits |-> 0]
    /\ \E present, visible, parent_visible \in BOOLEAN, depth \in Depths,
          rd \in RenderDepths, w, h \in RectDims,
          ew \in ElementWidths, eh \in ElementHeights, bd \in Boundaries,
          sc \in ElementScales, ed \in ElementDepths, rel \in Relatives,
          z \in TreeZs, before \in Befores :
          call = [n |-> 0,
                  tree |-> CallTree(present, visible, parent_visible, depth, rd, w, h),
                  tree_translation |-> [x |-> R(0), y |-> R(0), z |-> z],
                  widget |-> [path |-> "a/b"],
                  element |-> [relative |-> rel, width |-> ew, height |-> eh,
                               boundary |-> bd, scale |-> sc, depth |-> ed],
                  before |-> before,
                  transform |-> before.transform,
                  visibility |-> before.visibility,
                  despawn |-> FALSE]

\* one call of element_update_impl on the entity
ImplCall ==
    /\ pc = "impl"
    /\ call.n < MaxCalls
    /\ LET r == element_update_impl(call.tree, call.tree_translation, call.widget,
                                    call.element, call.transform, call.visibility)
       IN  call' = [call EXCEPT !.n = @ + 1,
                                !.before = [transform |-> call.transform,
                                            visibility |-> call.visibility],
                                !.transform = r.transform,
                                !.visibility = r.visibility,
                                !.despawn = r.despawn]
    /\ UNCHANGED <<pc, trees, treeChanged, elems, elemChanged, buffer, todo, commands,
                   log, used>>

SpecImpl == InitImpl /\ [][ImplCall]_vars

-----------------------------------------------------------------------------
(* Properties of the frame (Spec) *)

FrameOrder == <<"tree_pull_window", "tree_compute", "element_update">>
ReconciledAgainst(e) == {t \in Trees : <<e, t>> \in log.against}

\* C1: an element whose path does not resolve in the tree it is reconciled
\* against gets a despawn queued, is gone once the frame's commands are applied,
\* and has neither transform nor visibility written in that frame.
C1_UnresolvedIsRemovedUnwritten ==
    \A e \in log.failed :
        /\ e \in commands \cup log.despawned
        /\ pc = "end" => ~elems[e].alive
        /\ e \notin log.wrote

\* C2: in every frame, whatever the number of trees and the change flags, each
\* element is reconciled (element_update_impl is invoked on it) at most once.
C2_ReconciledAtMostOnce ==
    \A e \in Elements : log.recon[e] <= 1

\* C3: in a frame with the window size as before and no tree edited, in which
\* exactly one element's Widget/Element data changed, only that element is
\* reconciled; every other element is left unwritten, with the transform and
\* visibility it had when the frame started.
C3_OnlyChangedElementReconciled ==
    (/\ pc # "idle"
     /\ log.resized = {}
     /\ log.treeEdited = {}
     /\ Cardinality(log.elemEdited) = 1)
    => \A e \in Elements \ log.elemEdited :
           /\ log.recon[e] = 0
           /\ e \notin log.wrote
           /\ elems[e].transform = log.start[e].transform
           /\ elems[e].visibility = log.start[e].visibility

\* C4: within a frame the systems run in the order tree_pull_window,
\* tree_compute, element_update, each to completion before the next: an element
\* is reconciled only once tree_compute has completed for the frame, and every
\* tree that tree_compute handles has then been pulled and computed.
C4_PullComputeReconcileOrder ==
    /\ \E i \in 0..Len(FrameOrder) : log.ran = SubSeq(FrameOrder, 1, i)
    /\ \A pair \in log.against :
           /\ \E i \in 1..Len(log.ran) : log.ran[i] = "tree_compute"
           /\ trees[pair[2]].kind = "window"
                  => pair[2] \in log.pulled /\ pair[2] \in log.computed

\* C4 as stated: besides, every tree an element is reconciled against has had
\* its compute() of the frame completed.
C4_EveryTreeComputedFirst ==
    /\ C4_PullComputeReconcileOrder
    /\ \A pair \in log.against : pair[2] \in log.computed

C4_Witness ==
    \E pair \in log.against :
        /\ trees[pair[2]].kind = "window"
        /\ pair[2] \in log.computed
        /\ log.ran = FrameOrder

\* C5: in a frame in which a tree is flagged changed, every element whose path
\* resolves in that tree is reconciled against it, whether or not the element's
\* own Widget/Element data changed.
C5_ChangedTreeReconcilesAll ==
    pc = "end" =>
        \A t \in all_trees : treeChanged[t] =>
            \A e \in Elements :
                (log.start[e].alive /\ FetchOk(elems[e].widget, trees[t].tree))
                    => <<e, t>> \in log.against

C5_Witness ==
    /\ pc = "end"
    /\ \E t \in all_trees, e \in Elements :
           /\ treeChanged[t]
           /\ ~elemChanged[e]
           /\ log.start[e].alive
           /\ FetchOk(elems[e].widget, trees[t].tree)
           /\ <<e, t>> \in log.against

\* C7: trees of the same kind are independent: an element whose path resolves
\* in a tree is reconciled against one tree only and is never despawned because
\* its path does not resolve in another tree.
C7_TreesIndependent ==
    \A e \in Elements :
        (\E t \in all_trees : FetchOk(elems[e].widget, trees[t].tree))
            => /\ Cardinality(ReconciledAgainst(e)) <= 1
               /\ e \notin log.failed

\* C8: in a frame an element ends in exactly one of Hidden, Visible or Removed,
\* and Removed is terminal: once its despawn is queued, no reconciliation
\* writes the entity again, in that frame or a later one.
C8_RemovedIsTerminal ==
    \A e \in Elements :
        /\ Cardinality(log.outcomes[e]) <= 1
        /\ e \notin log.lateWrite
        /\ ~elems[e].alive => log.recon[e] = 0

WindowTrees == {t \in Trees : trees[t].kind = "window"}
Ran(system) == \E i \in 1..Len(log.ran) : log.ran[i] = system
FrameOver == pc \in {"apply", "end"}
BufferSet == {buffer[i] : i \in 1..Len(buffer)}

\* C16 (amended): in every frame tree_pull_window sets each windowed tree's Size
\* to the window's resolution and its translation to (-width/2, -height/2),
\* leaving translation.z as it was, and tree_compute then calls compute, with
\* exactly that translation and size, on every tree that has a Size; an element
\* is reconciled against such a tree only after that call.
C16_PullThenComputeThisFrame ==
    \A t \in WindowTrees :
        /\ t \in log.pulled =>
               /\ trees[t].size = trees[t].window
               /\ trees[t].translation.x[1] * 2 = -trees[t].window.width * trees[t].translation.x[2]
               /\ trees[t].translation.y[1] * 2 = -trees[t].window.height * trees[t].translation.y[2]
               /\ trees[t].translation.z = log.zBefore[t]
        /\ (Ran("tree_compute") \/ (\E e \in Elements : <<e, t>> \in log.against)) =>
               \E c \in log.computedWith :
                   /\ c.tree = t
                   /\ c.width = trees[t].window.width
                   /\ c.height = trees[t].window.height
                   /\ c.point.x[1] * 2 = -trees[t].window.width * c.point.x[2]
                   /\ c.point.y[1] * 2 = -trees[t].window.height * c.point.y[2]

\* C16 as stated: besides, tree_compute calls compute on every tree.
C16_ComputeOnEveryTree ==
    /\ C16_PullThenComputeThisFrame
    /\ Ran("tree_compute") => \A t \in all_trees : t \in log.computed

C16_Witness ==
    /\ used.frames = 2
    /\ log.resized # {}
    /\ \E t \in WindowTrees, e \in Elements :
           /\ t \in log.resized
           /\ <<e, t>> \in log.against
           /\ trees[t].window = [width |-> 400, height |-> 100]
           /\ \E c \in log.computedWith :
                  c.tree = t /\ c.width = 400 /\ c.point.x = <<-200, 1>>

\* C18: with a single tree, at the end of every frame every live element whose
\* path resolves is Hidden iff its node is not effectively visible, and if
\* visible has the translation and scale reconciliation computes from the
\* current tree and the element's current data.
C18_EndOfFrameConsistent ==
    (pc = "end" /\ Cardinality(all_trees) = 1) =>
        \A t \in all_trees, e \in Elements :
            (elems[e].alive /\ FetchOk(elems[e].widget, trees[t].tree)) =>
                /\ elems[e].visibility = "Hidden"
                       <=> ~is_visible(elems[e].widget, trees[t].tree)
                /\ is_visible(elems[e].widget, trees[t].tree) =>
                       /\ elems[e].transform.translation = Call(t, e).transform.translation
                       /\ elems[e].transform.scale = Call(t, e).transform.scale

C18_Witness ==
    /\ pc = "end" /\ Cardinality(all_trees) = 1
    /\ used.frames = 2
    /\ \E t \in all_trees, e \in Elements :
           /\ trees[t].kind = "bare"
           /\ ~treeChanged[t]
           /\ e \in log.elemEdited
           /\ elems[e].alive
           /\ elems[e].element.relative = <<50, 50>>
           /\ FetchOk(elems[e].widget, trees[t].tree)
           /\ is_visible(elems[e].widget, trees[t].tree)
           /\ elems[e].transform.translation = Call(t, e).transform.translation
           /\ log.recon[e] = 1

\* C19: the buffer carries nothing across frames: in every frame the trees the
\* second loop skips are exactly the trees flagged changed in that frame, and
\* every other tree (one changed in an earlier frame only, too) is processed
\* by the second loop.
C19_BufferIsPerFrame ==
    /\ pc = "trees" => BufferSet = changed_trees
    /\ (pc = "trees" /\ todo = {}) \/ FrameOver =>
           /\ log.skipped = changed_trees
           /\ log.passB = all_trees \ changed_trees

C19_Witness ==
    /\ FrameOver
    /\ used.frames = 2
    /\ \E t \in all_trees, u \in all_trees :
           /\ ~treeChanged[t]
           /\ t \in log.passB
           /\ u \in log.skipped

-----------------------------------------------------------------------------
(* Properties of element_update_impl (SpecImpl) *)

Called == pc = "impl" /\ call.n > 0
Resolved == FetchOk(call.widget, call.tree)
Visible == Resolved /\ is_visible(call.widget, call.tree)
Branch == Fetch(call.widget, call.tree)

\* C6: a path that resolves to a node that is not effectively visible sets the
\* visibility to Hidden and leaves translation (x, y, z) and scale (x, y) as
\* they were before the call.
C6_HiddenKeepsTransform ==
    (Called /\ Resolved /\ ~Visible) =>
        /\ call.visibility = "Hidden"
        /\ ~call.despawn
        /\ call.transform.translation = call.before.transform.translation
        /\ call.transform.scale.x = call.before.transform.scale.x
        /\ call.transform.scale.y = call.before.transform.scale.y

C6_Witness ==
    /\ Called /\ Resolved /\ ~Visible
    /\ call.n = 1
    /\ call.before = [transform |-> MovedTransform, visibility |-> "Visible"]
    /\ call.visibility = "Hidden"
    /\ call.transform = MovedTransform

FitMode == ~call.element.width.some /\ ~call.element.height.some

\* C9: in fit-smaller-axis mode, with non-zero rectangle and boundary,
\* scale.x = scale.y = min(rect.width/boundary.x, rect.height/boundary.y)
\* * element.scale/100; boundary (100, 200) in a rectangle (50, 50) with
\* element.scale 100 gives 0.25.  (Stated by cross-multiplication on integers.)
C9_FitSmallerAxis ==
    (/\ Called /\ Visible /\ FitMode
     /\ Branch.pos.width[1] # 0 /\ Branch.pos.height[1] # 0) =>
        LET W == Branch.pos.width
            H == Branch.pos.height
            bx == call.element.boundary.x
            by == call.element.boundary.y
            sx == call.transform.scale.x
            sy == call.transform.scale.y
            widthTighter == W[1] * H[2] * by <= H[1] * W[2] * bx
        IN  /\ sx = sy
            /\ widthTighter => sx[1] * W[2] * bx * 100 = sx[2] * W[1] * call.element.scale
            /\ ~widthTighter => sx[1] * H[2] * by * 100 = sx[2] * H[1] * call.element.scale
            /\ (/\ bx = 100 /\ by = 200 /\ W = <<50, 1>> /\ H = <<50, 1>>
                /\ call.element.scale = 100) => sx = <<1, 4>>

C9_Witness ==
    /\ Called /\ Visible /\ FitMode
    /\ call.element.boundary = [x |-> 100, y |-> 200]
    /\ Branch.pos.width = <<50, 1>> /\ Branch.pos.height = <<50, 1>>
    /\ call.element.scale = 100
    /\ call.transform.scale.x = <<1, 4>> /\ call.transform.scale.y = <<1, 4>>

\* the z the call would have written had the branch's level depth been d
ZAtDepth(d) ==
    element_update_impl([call.tree EXCEPT !.nodes[call.widget.path].depth = d],
                        call.tree_translation, call.widget, call.element,
                        call.before.transform, call.before.visibility
                       ).transform.translation.z

\* C10: for a visible node with render depth Set(v), the z written equals
\* v + element.depth + tree_translation.z, whatever the branch's level depth:
\* calls that differ only in branch.get_depth() write the same z.
C10_SetIgnoresLevelDepth ==
    (Called /\ Visible /\ Branch.render_depth.kind = "Set") =>
        /\ call.transform.translation.z =
               Branch.render_depth.v + call.element.depth + call.tree_translation.z
        /\ \A d \in Depths : ZAtDepth(d) = call.transform.translation.z

C10_Witness ==
    /\ Called /\ Visible /\ Branch.render_depth = Set(3)
    /\ Branch.depth = 3
    /\ call.element.depth = 2 /\ call.tree_translation.z = 5
    /\ call.transform.translation.z = 10

\* C11: for a visible node with render depth Add(v), the z written equals
\* v + branch.get_depth() * LEVEL_RENDER_DEPTH_DIFFERENCE + element.depth
\* + tree_translation.z.
C11_AddUsesLevelDepth ==
    (Called /\ Visible /\ Branch.render_depth.kind = "Add") =>
        call.transform.translation.z - call.tree_translation.z - call.element.depth
            = Branch.render_depth.v + Branch.depth * LEVEL_RENDER_DEPTH_DIFFERENCE

C11_Witness ==
    /\ Called /\ Visible /\ Branch.render_depth = Add(3)
    /\ Branch.depth = 3
    /\ call.element.depth = 2 /\ call.tree_translation.z = 5
    /\ call.transform.translation.z = 40

\* s = (dim/boundary) * (percent/100) * scale/100, on integers
IsAxisScale(s, dim, boundary, percent, scale) ==
    s[1] * dim[2] * boundary * 100 * 100 = s[2] * dim[1] * percent * scale

\* s = min(W/bx, H/by) * scale/100, on integers
IsFitScale(s, W, H, bx, by, scale) ==
    IF W[1] * H[2] * by <= H[1] * W[2] * bx
    THEN s[1] * W[2] * bx * 100 = s[2] * W[1] * scale
    ELSE s[1] * H[2] * by * 100 = s[2] * H[1] * scale

\* C12: the scale written for a visible element is selected by (element.width,
\* element.height): (Some w, Some h) gives x from the width ratio and y from the
\* height ratio, each axis on its own; (Some w, None) gives both from the x
\* formula; (None, Some h) both from the y formula; (None, None) both from the
\* smaller ratio; element.scale/100 is a factor exactly once in every mode.
C12_ScaleByMode ==
    (Called /\ Visible) =>
        LET el == call.element
            W == Branch.pos.width
            H == Branch.pos.height
            sx == call.transform.scale.x
            sy == call.transform.scale.y
        IN  /\ (el.width.some /\ el.height.some) =>
                   /\ IsAxisScale(sx, W, el.boundary.x, el.width.v, el.scale)
                   /\ IsAxisScale(sy, H, el.boundary.y, el.height.v, el.scale)
            /\ (el.width.some /\ ~el.height.some) =>
                   /\ IsAxisScale(sx, W, el.boundary.x, el.width.v, el.scale)
                   /\ sy = sx
            /\ (~el.width.some /\ el.height.some) =>
                   /\ IsAxisScale(sy, H, el.boundary.y, el.height.v, el.scale)
                   /\ sx = sy
            /\ (~el.width.some /\ ~el.height.some) =>
                   /\ IsFitScale(sx, W, H, el.boundary.x, el.boundary.y, el.scale)
                   /\ sy = sx

C12_Witness ==
    /\ Called /\ Visible
    /\ call.element.width = Some(50) /\ call.element.height = None
    /\ call.element.boundary = [x |-> 100, y |-> 200]
    /\ call.element.scale = 50
    /\ Branch.pos.width = <<200, 1>> /\ Branch.pos.height = <<50, 1>>
    /\ call.transform.scale.x = <<1, 2>> /\ call.transform.scale.y = <<1, 2>>

\* C13: a second call in succession with the same tree, tree translation,
\* Widget and Element leaves translation, scale and visibility as the first
\* call left them, in the visible, the hidden and the not-found branch.
C13_Idempotent ==
    (pc = "impl" /\ call.n >= 2) =>
        /\ call.transform = call.before.transform
        /\ call.visibility = call.before.visibility

C13_Witness ==
    /\ pc = "impl" /\ call.n = 2 /\ Visible
    /\ call.transform = call.before.transform
    /\ call.transform.translation.z = 40
    /\ call.transform.scale.z = 2

\* C14: a call changes none of its inputs (tree, tree translation, Widget,
\* Element); on the entity it writes translation x, y, z, scale x, y and the
\* visibility only: rotation and scale.z stay as they were.
C14_WritesOnlyTransformFields ==
    [][/\ call'.tree = call.tree
       /\ call'.tree_translation = call.tree_translation
       /\ call'.widget = call.widget
       /\ call'.element = call.element
       /\ call'.transform.rotation = call.transform.rotation
       /\ call'.transform.scale.z = call.transform.scale.z]_vars

C14_Witness ==
    /\ Called /\ Visible
    /\ call.before.transform = MovedTransform
    /\ call.transform.translation # MovedTransform.translation
    /\ call.transform.scale.x # MovedTransform.scale.x
    /\ call.transform.rotation = 1
    /\ call.transform.scale.z = 2

\* C15: a resolved rectangle with zero width or height (boundary non-zero) is
\* no error: the call completes without a despawn and writes zero scale on the
\* collapsed axis in both-axes mode, and zero uniform scale in width-only mode
\* (zero width), height-only mode (zero height) and fit-smaller-axis mode.
C15_CollapsedRectangle ==
    (Called /\ Visible /\ (Branch.pos.width[1] = 0 \/ Branch.pos.height[1] = 0)) =>
        LET el == call.element
            zw == Branch.pos.width[1] = 0
            zh == Branch.pos.height[1] = 0
            sx == call.transform.scale.x
            sy == call.transform.scale.y
        IN  /\ ~call.despawn
            /\ call.visibility = "Inherited"
            /\ (el.width.some /\ el.height.some /\ zw) => sx = <<0, 1>>
            /\ (el.width.some /\ el.height.some /\ zh) => sy = <<0, 1>>
            /\ (el.width.some /\ ~el.height.some /\ zw) => sx = <<0, 1>> /\ sy = <<0, 1>>
            /\ (~el.width.some /\ el.height.some /\ zh) => sx = <<0, 1>> /\ sy = <<0, 1>>
            /\ (~el.width.some /\ ~el.height.some) => sx = <<0, 1>> /\ sy = <<0, 1>>

C15_Witness ==
    /\ Called /\ Visible
    /\ Branch.pos.width = <<0, 1>> /\ Branch.pos.height = <<200, 1>>
    /\ call.element.width = Some(50) /\ call.element.height = Some(80)
    /\ call.transform.scale.x = <<0, 1>>
    /\ call.transform.scale.y # <<0, 1>>

\* C17: a path that resolves to an effectively visible node sets the visibility
\* to Inherited and translation x, y to the relative point of the node's
\* rectangle with y negated; the negation is applied once in every call (a
\* second call writes the same y, not the opposite one).
C17_PositionFlippedOnce ==
    (Called /\ Visible) =>
        LET pos == Branch.pos
            rel == call.element.relative
            x == call.transform.translation.x
            y == call.transform.translation.y
        IN  /\ call.visibility = "Inherited"
            /\ x[1] * pos.x[2] * pos.width[2] * 100
                   = x[2] * (pos.x[1] * pos.width[2] * 100 + pos.width[1] * rel[1] * pos.x[2])
            /\ -y[1] * pos.y[2] * pos.height[2] * 100
                   = y[2] * (pos.y[1] * pos.height[2] * 100 + pos.height[1] * rel[2] * pos.y[2])

C17_Witness ==
    /\ pc = "impl" /\ call.n = 2 /\ Visible
    /\ call.element.relative = <<50, 50>>
    /\ Branch.pos.width = <<200, 1>> /\ Branch.pos.height = <<50, 1>>
    /\ call.transform.translation.x = <<110, 1>>
    /\ call.transform.translation.y = <<-45, 1>>
    /\ call.visibility = "Inherited"

=============================================================================
